---- MODULE Spec2Model ----
(***************************************************************************)
(* The analysis-task workflow of frontend/src/pages/JobDetailsPage.jsx:    *)
(* the jobId effect (startAnalysisWorkflow), the polling effect            *)
(* (setInterval / clearInterval keyed on [task]), the display-state        *)
(* derivation of utils/taskUtils.js and the AnalysisStatus presenter.      *)
(*                                                                         *)
(* A React state update, the re-render it causes and the effects that      *)
(* re-render runs (cleanup of the old polling effect, then its new run)    *)
(* are one step of the model: JavaScript is single threaded and the        *)
(* handlers run to their next await.                                       *)
(***************************************************************************)
EXTENDS Naturals, Integers, Sequences, FiniteSets, TLC

\* ---------------------------------------------------------------- bounds
\* Work done over one behaviour: one unit per poll fetch issued, two per
\* subject change (a subject change brings a second task and its calls).
MaxWork == 3
\* Task ids of the records deriveTaskDisplayState is tried on.
MaxTaskId == 2

\* ------------------------------------------------------------ data model
Jobs == {"job1", "job2"}
\* The subject the page is opened on (the subjects are interchangeable).
FirstJob == "job1"

Null == "null"
NoTask == [status |-> "absent"]

PollingLostMsg == "Connection to the server was lost. Retrying..."
DefaultErrorMsg == "An error occurred."
DetailErrorMsg == "detail"

NoResult == [present |-> FALSE]
NoTriage == [present |-> FALSE]
Triage(b) == [present |-> TRUE, is_sufficient |-> b]
Result(td, ai) == [present |-> TRUE, triage_decision |-> td, ai_analysis |-> ai]

\* The stages of the remote pipeline ("triagedT", "triagedF": status
\* 'complete' with a triage decision) and the stages that may follow each.
StageNext(s) ==
  CASE s = "pending"    -> {"processing", "failed"}
    [] s = "processing" -> {"complete", "failed"}
    [] s = "complete"   -> {"triagedT", "triagedF", "failed"}
    [] s = "triagedT"   -> {"finalized", "failed"}
    [] s = "triagedF"   -> {"finalized", "failed"}
    [] OTHER            -> {}

\* The TaskRecord body the backend serves for task id in stage s.
RecordOf(id, s) ==
  [id |-> id,
   task_type |-> "GET_JOB_DETAILS",
   status |-> CASE s \in {"complete", "triagedT", "triagedF"} -> "complete"
                [] OTHER -> s,
   result |-> CASE s = "complete"  -> Result(NoTriage, FALSE)
                [] s = "triagedT"  -> Result(Triage("true"), FALSE)
                [] s = "triagedF"  -> Result(Triage("false"), FALSE)
                [] s = "finalized" -> Result(NoTriage, TRUE)
                [] OTHER           -> NoResult]

\* ------------------------------------------------- utils/taskUtils.js
\* task.result?.triage_decision, absent when either level is missing.
TriageDecisionOf(t) ==
  IF t.result.present /\ t.result.triage_decision.present
    THEN t.result.triage_decision
    ELSE NoTriage

\* deriveTaskDisplayState with one slip, named by bug:
\*   "absent"    the !task guard is missing and the fallback is returned
\*   "finalized" 'finalized' counts only with result.ai_analysis
\*   "failed"    the 'failed' test sits inside the GET_JOB_DETAILS block
\*   "pending"   'processing' is left out of the first loading test
\*   "triage"    !task.result is tested in place of !triageDecision
\*   "swap"      the two is_sufficient messages are exchanged
\*   "ai"        result.ai_analysis alone counts as success
\*   "fallback"  the default return at the end is missing
DeriveVariant(t, bug) ==
  IF t = NoTask
    THEN IF bug = "absent"
           THEN [status |-> "loading", message |-> "Analysis in progress..."]
           ELSE [status |-> "initializing",
                 message |-> "Creating analysis task..."]
  ELSE IF \/ /\ t.status = "finalized"
             /\ (bug = "finalized") => (t.result.present /\ t.result.ai_analysis)
          \/ /\ bug = "ai"
             /\ t.result.present /\ t.result.ai_analysis
    THEN [status |-> "success", message |-> "Analysis Complete!"]
  ELSE IF /\ t.status = "failed"
          /\ (bug = "failed") => (t.task_type = "GET_JOB_DETAILS")
    THEN [status |-> "error", message |-> "Analysis Failed. Check agent logs."]
  ELSE IF /\ t.task_type = "GET_JOB_DETAILS"
          /\ t.status \in (IF bug = "pending" THEN {"pending"}
                                             ELSE {"pending", "processing"})
    THEN [status |-> "loading",
          message |-> "Requesting initial details from on-premises agent..."]
  ELSE IF /\ t.task_type = "GET_JOB_DETAILS" /\ t.status = "complete"
          /\ IF bug = "triage" THEN ~t.result.present
                               ELSE ~TriageDecisionOf(t).present
    THEN [status |-> "loading",
          message |-> "Initial data received. Performing AI triage..."]
  ELSE IF /\ t.task_type = "GET_JOB_DETAILS" /\ t.status = "complete"
          /\ TriageDecisionOf(t).present
          /\ TriageDecisionOf(t).is_sufficient
                = (IF bug = "swap" THEN "false" ELSE "true")
    THEN [status |-> "loading",
          message |-> "Triage complete. Finalizing analysis..."]
  ELSE IF /\ t.task_type = "GET_JOB_DETAILS" /\ t.status = "complete"
          /\ TriageDecisionOf(t).present
          /\ TriageDecisionOf(t).is_sufficient
                = (IF bug = "swap" THEN "true" ELSE "false")
    THEN [status |-> "loading",
          message |-> "Triage complete. Agent is now fetching detailed logs..."]
  ELSE IF bug = "fallback"
    THEN [status |-> "undefined", message |-> "undefined"]
  ELSE [status |-> "loading", message |-> "Analysis in progress..."]

deriveNoAbsentGuard(t) == DeriveVariant(t, "absent")
deriveFinalizedNeedsAnalysis(t) == DeriveVariant(t, "finalized")
deriveFailedNested(t) == DeriveVariant(t, "failed")
derivePendingOnly(t) == DeriveVariant(t, "pending")
deriveTriageByResult(t) == DeriveVariant(t, "triage")
deriveSwappedTriage(t) == DeriveVariant(t, "swap")
deriveAnalysisIsSuccess(t) == DeriveVariant(t, "ai")
deriveNoFallback(t) == DeriveVariant(t, "fallback")

deriveTaskDisplayState(t) ==
  IF t = NoTask
    THEN [status |-> "initializing", message |-> "Creating analysis task..."]
  ELSE IF t.status = "finalized"
    THEN [status |-> "success", message |-> "Analysis Complete!"]
  ELSE IF t.status = "failed"
    THEN [status |-> "error", message |-> "Analysis Failed. Check agent logs."]
  ELSE IF t.task_type = "GET_JOB_DETAILS"
            /\ t.status \in {"pending", "processing"}
    THEN [status |-> "loading",
          message |-> "Requesting initial details from on-premises agent..."]
  ELSE IF t.task_type = "GET_JOB_DETAILS" /\ t.status = "complete"
            /\ ~TriageDecisionOf(t).present
    THEN [status |-> "loading",
          message |-> "Initial data received. Performing AI triage..."]
  ELSE IF t.task_type = "GET_JOB_DETAILS" /\ t.status = "complete"
            /\ TriageDecisionOf(t).is_sufficient = "true"
    THEN [status |-> "loading",
          message |-> "Triage complete. Finalizing analysis..."]
  ELSE IF t.task_type = "GET_JOB_DETAILS" /\ t.status = "complete"
            /\ TriageDecisionOf(t).is_sufficient = "false"
    THEN [status |-> "loading",
          message |-> "Triage complete. Agent is now fetching detailed logs..."]
  ELSE [status |-> "loading", message |-> "Analysis in progress..."]

\* ------------------------------------------ components/AnalysisStatus.jsx
\* A presenter that forgets the task it was handed.
AnalysisStatusNoTask(t, pe) ==
  IF pe # Null
    THEN [status |-> "warning", message |-> pe]
    ELSE deriveTaskDisplayState(NoTask)

\* What AnalysisStatus renders for its two props.
AnalysisStatus(t, pe) ==
  IF pe # Null
    THEN [status |-> "warning", message |-> pe]
    ELSE deriveTaskDisplayState(t)

\* ------------------------------------------------------------------ state
VARIABLES
  mounted,          \* the component is mounted
  jobId,            \* useParams().jobId of the latest render
  job,              \* useState: job
  task,             \* useState: task (the cached TaskRecord)
  isInitializing,   \* useState: isInitializing
  error,            \* useState: error (the fatal error)
  pollingError,     \* useState: pollingError (the transient error)
  starts,           \* the runs of startAnalysisWorkflow, in order
  timer,            \* the interval of the polling effect
  polls,            \* getTaskResult calls not yet settled
  nPolls,           \* number of getTaskResult calls issued so far
  srv,              \* backend: per created task id, the stages it went through
  termSeen,         \* a terminal record was applied since the latest creation response
  hiSeq,            \* the highest issue number among the polls whose body was applied
  last,             \* the step taken last
  dIn,              \* the task a call of deriveTaskDisplayState is given
  dOut,             \* what that call returned
  now,              \* the time, in seconds
  due               \* when the interval fires next (read while it is active)

vars == <<mounted, jobId, job, task, isInitializing, error, pollingError,
          starts, timer, polls, nPolls, srv, termSeen, hiSeq, last, dIn, dOut,
          now, due>>

\* The variables of a call of deriveTaskDisplayState taken on its own.
derivation == <<dIn, dOut>>

\* The variables that follow the clock.
timing == <<now, due>>

\* No call of deriveTaskDisplayState has returned yet.
NotDerived == [status |-> "none", message |-> "none"]

Work == nPolls + 2 * (Len(starts) - 1)

IsTerminal(t) == t # NoTask /\ t.status \in {"finalized", "failed"}

NoTimer == [active |-> FALSE, id |-> 0]

\* A polling effect whose early return tests the absent task only.
PollingEffectAnyStatus(t) ==
  IF t = NoTask
    THEN [active |-> FALSE, id |-> 0]
    ELSE [active |-> TRUE, id |-> t.id]

\* A polling effect whose early return lets only a 'pending' task through.
PollingEffectPendingOnly(t) ==
  IF t = NoTask \/ t.status # "pending"
    THEN [active |-> FALSE, id |-> 0]
    ELSE [active |-> TRUE, id |-> t.id]

\* The polling effect of a render whose task state is t: its early return,
\* or the interval it sets up with t in its closure.  Every new task value
\* re-runs it after the cleanup of the previous run cleared the old interval.
PollingEffect(t) ==
  IF t = NoTask \/ t.status = "finalized" \/ t.status = "failed"
    THEN NoTimer
    ELSE [active |-> TRUE, id |-> t.id]

\* The run of startAnalysisWorkflow for subject j, suspended in getJobById.
\* alone: every earlier run had ended when this one began.
NewStart(j, alone) ==
  [jobId |-> j, pc |-> "getJob", posts |-> <<>>, outcome |-> "running",
   alone |-> alone]

Init ==
  /\ mounted = TRUE
  /\ jobId = FirstJob
  /\ job = Null
  /\ task = NoTask
  /\ isInitializing = TRUE
  /\ error = Null
  /\ pollingError = Null
  /\ starts = <<NewStart(FirstJob, TRUE)>>
  /\ timer = PollingEffect(NoTask)
  /\ polls = {}
  /\ nPolls = 0
  /\ srv = <<>>
  /\ termSeen = FALSE
  /\ hiSeq = 0
  /\ last = "Mount"
  /\ dIn = NoTask
  /\ dOut = NotDerived
  /\ now = 0
  /\ due = 0

\* A state setter called on an unmounted component changes nothing.
Set(old, new) == IF mounted THEN new ELSE old

\* ----------------------------------------------- JobDetailsPage render (63-96)
\* What the page shows: the initializing notice, the fatal error box, or the
\* analysis section whose status line is rendered by AnalysisStatus.
Page ==
  IF isInitializing THEN [view |-> "initializing"]
  ELSE IF error # Null THEN [view |-> "error", message |-> error]
  ELSE [view |-> "analysis", shown |-> AnalysisStatus(task, pollingError)]

\* ------------------------------------------------ the jobId effect (17-38)
\* The route parameter changes to another subject while the page stays
\* mounted: the jobId effect runs again.  It has no cleanup, and the polling
\* effect does not depend on jobId, so task and the interval stay as they are.
ChangeSubject(j) ==
  /\ mounted
  /\ j # jobId
  /\ Work + 2 <= MaxWork
  /\ jobId' = j
  /\ isInitializing' = TRUE
  /\ error' = Null
  /\ starts' = Append(starts,
                    NewStart(j, \A i \in DOMAIN starts : starts[i].pc = "done"))
  /\ last' = "ChangeSubject"
  /\ UNCHANGED <<mounted, job, task, pollingError, timer, polls, nPolls, srv,
                 termSeen, hiSeq>>
  /\ UNCHANGED derivation
  /\ UNCHANGED timing

\* A creation call scoped to the subject of the latest render instead.
CreateUrlJobLatest(i) == jobId

\* The url of the creation call a run of startAnalysisWorkflow makes: the
\* jobId of the render whose effect started that run.
CreateUrlJob(i) == starts[i].jobId

\* getJobById resolves for run i: setJob, then createAnalysisTask is called.
JobOk(i) ==
  /\ i \in DOMAIN starts
  /\ starts[i].pc = "getJob"
  /\ job' = Set(job, starts[i].jobId)
  /\ starts' = [starts EXCEPT ![i].pc = "create",
                              ![i].posts = Append(@, CreateUrlJob(i))]
  /\ last' = "JobOk"
  /\ UNCHANGED <<mounted, jobId, task, isInitializing, error, pollingError,
                 timer, polls, nPolls, srv, termSeen, hiSeq>>
  /\ UNCHANGED derivation
  /\ UNCHANGED timing

\* A catch block that also drops the cached task.
CatchStartResets(i, msg, how) ==
  /\ error' = Set(error, msg)
  /\ isInitializing' = Set(isInitializing, FALSE)
  /\ task' = Set(task, NoTask)
  /\ timer' = IF mounted THEN PollingEffect(NoTask) ELSE timer
  /\ starts' = [starts EXCEPT ![i].pc = "done", ![i].outcome = how]
  /\ UNCHANGED <<mounted, jobId, job, pollingError, polls, nPolls, srv,
                 termSeen, hiSeq>>
  /\ UNCHANGED derivation
  /\ UNCHANGED timing

\* The catch block of startAnalysisWorkflow followed by its finally block.
CatchStart(i, msg, how) ==
  /\ error' = Set(error, msg)
  /\ isInitializing' = Set(isInitializing, FALSE)
  /\ starts' = [starts EXCEPT ![i].pc = "done", ![i].outcome = how]
  /\ UNCHANGED <<mounted, jobId, job, task, pollingError, timer, polls,
                 nPolls, srv, termSeen, hiSeq>>
  /\ UNCHANGED derivation
  /\ UNCHANGED timing

\* A run whose rejected getJobById is reported and then goes on to create.
JobFailContinues(i) ==
  /\ i \in DOMAIN starts
  /\ starts[i].pc = "getJob"
  /\ error' = Set(error, DefaultErrorMsg)
  /\ starts' = [starts EXCEPT ![i].pc = "create",
                              ![i].posts = Append(@, starts[i].jobId)]
  /\ last' = "JobFail"
  /\ UNCHANGED <<mounted, jobId, job, task, isInitializing, pollingError,
                 timer, polls, nPolls, srv, termSeen, hiSeq>>
  /\ UNCHANGED derivation
  /\ UNCHANGED timing

\* getJobById rejects for run i.
JobFail(i) ==
  /\ i \in DOMAIN starts
  /\ starts[i].pc = "getJob"
  /\ \E msg \in {DetailErrorMsg, DefaultErrorMsg} : CatchStart(i, msg, "jobFail")
  /\ last' = "JobFail"

\* createAnalysisTask rejects for run i.
CreateFail(i) ==
  /\ i \in DOMAIN starts
  /\ starts[i].pc = "create"
  /\ \E msg \in {DetailErrorMsg, DefaultErrorMsg} : CatchStart(i, msg, "createFail")
  /\ last' = "CreateFail"

\* createAnalysisTask resolves for run i with the record of a new task (its
\* id is the run's number): setTask, then the finally block.
CreateOk(i) ==
  /\ i \in DOMAIN starts
  /\ starts[i].pc = "create"
  /\ \E hist \in {<<"pending">>, <<"pending", "failed">>} :
       LET body == RecordOf(i, hist[Len(hist)]) IN
         /\ srv' = srv @@ (i :> hist)
         /\ task' = Set(task, body)
         /\ timer' = IF mounted THEN PollingEffect(body) ELSE timer
         /\ termSeen' = IF mounted THEN IsTerminal(body) ELSE termSeen
  /\ isInitializing' = Set(isInitializing, FALSE)
  /\ starts' = [starts EXCEPT ![i].pc = "done", ![i].outcome = "ok"]
  /\ last' = "CreateOk"
  /\ UNCHANGED <<mounted, jobId, job, error, pollingError, polls, nPolls,
                 hiSeq>>
  /\ UNCHANGED derivation
  /\ UNCHANGED timing

\* ---------------------------------------------- the polling effect (41-61)
\* A callback that keeps calling for the task the page cached first.
PollRequestFirstTask(seq) ==
  LET id == IF 1 \in DOMAIN srv THEN 1 ELSE timer.id
  IN [seq |-> seq, id |-> id, from |-> Len(srv[id]), to |-> 0]

\* The getTaskResult call the interval callback makes: the id of the task in
\* the callback's closure.  from and to delimit the stages the backend can be
\* in when it serves the call (to = 0: no upper limit yet).
PollRequest(seq) ==
  [seq |-> seq, id |-> timer.id, from |-> Len(srv[timer.id]), to |-> 0]

\* A callback that skips its run while a call for its task is in flight.
IntervalCallbackOneInFlight ==
  /\ timer.active
  /\ Work < MaxWork
  /\ \A q \in polls : q.id # timer.id
  /\ pollingError' = Null
  /\ nPolls' = nPolls + 1
  /\ polls' = polls \cup {PollRequest(nPolls + 1)}
  /\ last' = "Tick"
  /\ UNCHANGED <<mounted, jobId, job, task, isInitializing, error, starts,
                 timer, srv, termSeen, hiSeq>>
  /\ UNCHANGED derivation

\* The interval callback runs up to its await: setPollingError(null), then
\* getTaskResult is called.
IntervalCallback ==
  /\ timer.active
  /\ Work < MaxWork
  /\ pollingError' = Null
  /\ nPolls' = nPolls + 1
  /\ polls' = polls \cup {PollRequest(nPolls + 1)}
  /\ last' = "Tick"
  /\ UNCHANGED <<mounted, jobId, job, task, isInitializing, error, starts,
                 timer, srv, termSeen, hiSeq>>
  /\ UNCHANGED derivation

\* The interval fires, at whatever time that is.
Tick ==
  /\ IntervalCallback
  /\ UNCHANGED timing

\* A callback that reports a record of status 'failed' as a lost connection.
ApplyPollFailedAsLost(r, body) ==
  /\ task' = Set(task, body)
  /\ timer' = IF mounted THEN PollingEffect(body) ELSE timer
  /\ pollingError' = IF mounted /\ body.status = "failed"
                        THEN PollingLostMsg ELSE pollingError
  /\ UNCHANGED error

\* A callback that patches the cached record: a body without a result keeps
\* the result cached before.
ApplyPollPatch(r, body) ==
  LET merged == IF task # NoTask /\ ~body.result.present
                  THEN [body EXCEPT !.result = task.result]
                  ELSE body
  IN /\ task' = Set(task, merged)
     /\ timer' = IF mounted THEN PollingEffect(merged) ELSE timer
     /\ UNCHANGED <<error, pollingError>>

\* What the callback does with the body of a resolved getTaskResult.
ApplyPoll(r, body) ==
  /\ task' = Set(task, body)
  /\ timer' = IF mounted THEN PollingEffect(body) ELSE timer
  /\ UNCHANGED <<error, pollingError>>

Min(a, b) == IF a <= b THEN a ELSE b
Max(a, b) == IF a >= b THEN a ELSE b

\* The latest stage of its task the backend can have served request q in.
Upper(q) == IF q.to = 0 THEN Len(srv[q.id]) ELSE Min(q.to, Len(srv[q.id]))

\* The backend serves the calls for one task in the order they were made:
\* once r is known to have been served in stage k, a call made earlier was
\* served no later than k and a call made later no earlier.
Narrow(q, r, k) ==
  IF q.id # r.id THEN q
  ELSE IF q.seq < r.seq THEN [q EXCEPT !.to = IF @ = 0 THEN k ELSE Min(@, k)]
  ELSE [q EXCEPT !.from = Max(@, k)]

\* getTaskResult resolves for request r, with the record the backend held
\* when it served the call, at some moment between the call and now.
PollResolved(r) ==
  /\ r \in polls
  /\ \E k \in r.from .. Upper(r) :
       LET body == RecordOf(r.id, srv[r.id][k]) IN
         /\ ApplyPoll(r, body)
         /\ termSeen' = (termSeen \/ (mounted /\ IsTerminal(body)))
         /\ hiSeq' = IF mounted /\ r.seq > hiSeq THEN r.seq ELSE hiSeq
         /\ polls' = {Narrow(q, r, k) : q \in polls \ {r}}
  /\ last' = "PollOk"
  /\ UNCHANGED <<mounted, jobId, job, isInitializing, starts, nPolls, srv>>
  /\ UNCHANGED derivation

\* The same, at whatever time that is.
PollOk(r) ==
  /\ PollResolved(r)
  /\ UNCHANGED timing

\* A catch block that also gives up polling.
CatchPollStops ==
  /\ pollingError' = Set(pollingError, PollingLostMsg)
  /\ timer' = IF mounted THEN NoTimer ELSE timer
  /\ UNCHANGED <<task, error>>

\* A catch block that reports the failure as the fatal error as well.
CatchPollFatal ==
  /\ pollingError' = Set(pollingError, PollingLostMsg)
  /\ error' = Set(error, DefaultErrorMsg)
  /\ UNCHANGED <<task, timer>>

\* The catch block of the interval callback.
CatchPoll ==
  /\ pollingError' = Set(pollingError, PollingLostMsg)
  /\ UNCHANGED <<task, error, timer>>

\* getTaskResult rejects for request r.
PollFail(r) ==
  /\ r \in polls
  /\ CatchPoll
  /\ polls' = polls \ {r}
  /\ last' = "PollFail"
  /\ UNCHANGED <<mounted, jobId, job, isInitializing, starts, nPolls, srv,
                 termSeen, hiSeq>>
  /\ UNCHANGED derivation
  /\ UNCHANGED timing

\* An unmount whose polling effect returned no cleanup: the interval stays.
UnmountLeaky ==
  /\ mounted
  /\ mounted' = FALSE
  /\ last' = "Unmount"
  /\ UNCHANGED <<jobId, job, task, isInitializing, error, pollingError, starts,
                 timer, polls, nPolls, srv, termSeen, hiSeq>>
  /\ UNCHANGED derivation
  /\ UNCHANGED timing

\* The component unmounts: the cleanup of the polling effect clears the
\* interval.  Calls already made stay in flight.
Unmount ==
  /\ mounted
  /\ mounted' = FALSE
  /\ timer' = NoTimer
  /\ last' = "Unmount"
  /\ UNCHANGED <<jobId, job, task, isInitializing, error, pollingError, starts,
                 polls, nPolls, srv, termSeen, hiSeq>>
  /\ UNCHANGED derivation
  /\ UNCHANGED timing

\* ------------------------------------------------------------ the backend
\* The remote pipeline moves a task to a next stage.
\* Only a task the client still refers to is followed: no other task's
\* record is ever fetched again.
Referenced(id) ==
  \/ (task # NoTask /\ task.id = id)
  \/ (timer.active /\ timer.id = id)
  \/ \E r \in polls : r.id = id

ServerAdvance(id) ==
  /\ id \in DOMAIN srv
  /\ Referenced(id)
  /\ \E s \in StageNext(srv[id][Len(srv[id])]) :
       srv' = [srv EXCEPT ![id] = Append(@, s)]
  /\ UNCHANGED <<mounted, jobId, job, task, isInitializing, error,
                 pollingError, starts, timer, polls, nPolls, termSeen, hiSeq,
                 last>>
  /\ UNCHANGED derivation
  /\ UNCHANGED timing

Next ==
  \/ \E j \in Jobs : ChangeSubject(j)
  \/ \E i \in DOMAIN starts : JobOk(i)
  \/ \E i \in DOMAIN starts : JobFail(i)
  \/ \E i \in DOMAIN starts : CreateOk(i)
  \/ \E i \in DOMAIN starts : CreateFail(i)
  \/ Tick
  \/ \E r \in polls : PollOk(r)
  \/ \E r \in polls : PollFail(r)
  \/ Unmount
  \/ \E id \in DOMAIN srv : ServerAdvance(id)

Spec == Init /\ [][Next]_vars

\* One subject from mount on, with what the platform and the backend
\* guarantee: an interval that is set fires again, a call in flight is
\* settled, and the pipeline of a task goes on to its end.
NextLive ==
  \/ \E i \in DOMAIN starts : JobOk(i)
  \/ \E i \in DOMAIN starts : JobFail(i)
  \/ \E i \in DOMAIN starts : CreateOk(i)
  \/ \E i \in DOMAIN starts : CreateFail(i)
  \/ Tick
  \/ \E r \in polls : PollOk(r)
  \/ \E r \in polls : PollFail(r)
  \/ Unmount
  \/ \E id \in DOMAIN srv : ServerAdvance(id)

SpecLive ==
  /\ Init
  /\ [][NextLive]_vars
  /\ WF_vars(Tick)
  /\ WF_vars(\E r \in polls : PollOk(r) \/ PollFail(r))
  /\ WF_vars(\E id \in DOMAIN srv : ServerAdvance(id))

\* ------------------------------------ deriveTaskDisplayState on its own
\* The records a call can be given: every task_type ("OTHER_TASK" stands
\* for any type but GET_JOB_DETAILS), every status of the pipeline
\* ("OTHER_STATUS" stands for any other string), every shape of result, and
\* the absent task.
TaskTypes == {"GET_JOB_DETAILS", "OTHER_TASK"}
Statuses ==
  {"pending", "processing", "complete", "finalized", "failed", "OTHER_STATUS"}
TriageDecisions == {NoTriage} \cup {Triage(b) : b \in {"true", "false", "null"}}
Results ==
  {NoResult} \cup {Result(td, ai) : td \in TriageDecisions, ai \in BOOLEAN}
TaskInputs ==
  {NoTask} \cup
  [id : 1 .. MaxTaskId, task_type : TaskTypes, status : Statuses,
   result : Results]

InitDerive ==
  /\ mounted = TRUE
  /\ jobId = FirstJob
  /\ job = Null
  /\ task = NoTask
  /\ isInitializing = TRUE
  /\ error = Null
  /\ pollingError = Null
  /\ starts = <<NewStart(FirstJob, TRUE)>>
  /\ timer = PollingEffect(NoTask)
  /\ polls = {}
  /\ nPolls = 0
  /\ srv = <<>>
  /\ termSeen = FALSE
  /\ hiSeq = 0
  /\ last = "Mount"
  /\ dIn \in TaskInputs
  /\ dOut = NotDerived
  /\ now = 0
  /\ due = 0

workflow == <<mounted, jobId, job, task, isInitializing, error, pollingError,
              starts, timer, polls, nPolls, srv, termSeen, hiSeq, last>>

\* deriveTaskDisplayState is called with the record dIn: it reads the record
\* and returns a new object.
DeriveCall ==
  /\ dOut' = deriveTaskDisplayState(dIn)
  /\ dIn' = dIn
  /\ UNCHANGED workflow
  /\ UNCHANGED timing

\* Another record is handed over for a later call.
HandRecord(t) ==
  /\ dOut # NotDerived
  /\ dIn' = t
  /\ dOut' = NotDerived
  /\ UNCHANGED workflow
  /\ UNCHANGED timing

NextDerive ==
  \/ DeriveCall
  \/ \E t \in TaskInputs : HandRecord(t)

SpecDerive == InitDerive /\ [][NextDerive]_vars

Derived == dOut # NotDerived

\* ------------------------------------------- the polling effect in time
\* setInterval(..., 7000): the period of the interval, in seconds.
Period == 7
\* The clock is followed up to this time.
MaxTime == 15
\* Polling begins when the creation response is stored, at this time.
PollingBegan == 0

\* The page right after startAnalysisWorkflow stored the 'pending' record of
\* task 1 and the polling effect set its interval up.
InitTimed ==
  /\ mounted = TRUE
  /\ jobId = FirstJob
  /\ job = FirstJob
  /\ task = RecordOf(1, "pending")
  /\ isInitializing = FALSE
  /\ error = Null
  /\ pollingError = Null
  /\ starts = <<[NewStart(FirstJob, TRUE) EXCEPT !.pc = "done",
                                                 !.posts = <<FirstJob>>,
                                                 !.outcome = "ok"]>>
  /\ timer = PollingEffect(RecordOf(1, "pending"))
  /\ polls = {}
  /\ nPolls = 0
  /\ srv = <<<<"pending">>>>
  /\ termSeen = FALSE
  /\ hiSeq = 0
  /\ last = "CreateOk"
  /\ dIn = NoTask
  /\ dOut = NotDerived
  /\ now = PollingBegan
  /\ due = PollingBegan + Period

\* A second passes.  An active interval fires when it is due, not later.
Elapse ==
  /\ now < MaxTime
  /\ timer.active => now < due
  /\ now' = now + 1
  /\ UNCHANGED due
  /\ UNCHANGED workflow
  /\ UNCHANGED derivation

\* The interval fires when it is due, and is due again one period later.
TickAt ==
  /\ now = due
  /\ IntervalCallback
  /\ now' = now
  /\ due' = now + Period

\* getTaskResult resolves: setTask stores a new object, so the polling
\* effect (deps [task]) clears its interval and, unless the record is
\* terminal, sets a new one up, due one period from now.
PollOkAt(r) ==
  /\ PollResolved(r)
  /\ now' = now
  /\ due' = IF mounted /\ timer'.active THEN now + Period ELSE due

NextTimed ==
  \/ Elapse
  \/ TickAt
  \/ \E r \in polls : PollOkAt(r)
  \/ \E r \in polls : PollFail(r)
  \/ Unmount
  \/ \E id \in DOMAIN srv : ServerAdvance(id)

SpecTimed == InitTimed /\ [][NextTimed]_vars

\* ================================================================ claims

\* C1: once a response carrying a 'finalized' or 'failed' record has been
\* applied to the cached task, no poll fetch is issued afterwards in that
\* workflow (a workflow begins when a creation response is applied).
C1_NoFetchAfterTerminal == [][termSeen => nPolls' = nPolls]_vars

\* C2: poll responses are applied in issue order: the response of a fetch
\* issued before one whose response was already applied never overwrites
\* the cached task.
C2_IssueOrderApplied ==
  [][\A r \in polls : (PollOk(r) /\ r.seq < hiSeq) => task' = task]_vars

\* C3: once the cached task is 'finalized' or 'failed', no later-arriving
\* response of a poll for that task replaces it with another record.
C3_TerminalTaskFrozen ==
  [][\A r \in polls :
        (IsTerminal(task) /\ r.id = task.id /\ PollOk(r)) => task' = task]_vars

\* C4: a poll fetch that fails while the cached task is non-terminal sets
\* pollingError, leaves the cached task as it was and the polling timer
\* active, and a tick of that timer issues a fetch.
C4_PollFailureKeepsPolling ==
  [][/\ \A r \in polls :
          (PollFail(r) /\ mounted /\ task # NoTask /\ ~IsTerminal(task))
             => /\ pollingError' = PollingLostMsg
                /\ task' = task
                /\ timer' = timer
                /\ timer'.active /\ timer'.id = task.id
     /\ Tick => /\ nPolls' = nPolls + 1
                /\ \E q \in polls' \ polls : q.id = timer.id
    ]_vars

C4_Witness ==
  /\ last = "PollFail" /\ mounted
  /\ task # NoTask /\ ~IsTerminal(task)
  /\ pollingError = PollingLostMsg
  /\ timer.active

\* C5: right after a successful poll response is applied, pollingError is
\* clear.
C5_ClearAfterSuccess ==
  (last = "PollOk" /\ mounted) => pollingError = Null

\* C6: when the creation call of the latest start has failed (a start begun
\* after every earlier start had ended), the fatal error is set and no
\* polling timer runs.
C6_FailedCreationNoPolling ==
  (/\ mounted
   /\ starts[Len(starts)].outcome = "createFail"
   /\ starts[Len(starts)].alone)
     => (error # Null /\ ~timer.active)

\* C7 as stated: every start that has run to its end issued exactly one
\* creation call.
C7_ExactlyOneCreation ==
  \A i \in DOMAIN starts :
     starts[i].pc = "done" => Len(starts[i].posts) = 1

\* C7 as amended: a start issues at most one creation call, scoped to its
\* own subject: exactly one once its getJobById has resolved, none while
\* getJobById is pending or after it failed.
C7_AtMostOneCreation ==
  \A i \in DOMAIN starts :
     /\ Len(starts[i].posts) <= 1
     /\ \A k \in DOMAIN starts[i].posts : starts[i].posts[k] = starts[i].jobId
     /\ (starts[i].pc = "create" \/ starts[i].outcome \in {"ok", "createFail"})
           => Len(starts[i].posts) = 1
     /\ (starts[i].pc = "getJob" \/ starts[i].outcome = "jobFail")
           => Len(starts[i].posts) = 0

C7_Witness ==
  \E i, k \in DOMAIN starts :
     /\ starts[i].outcome = "createFail" /\ Len(starts[i].posts) = 1
     /\ starts[k].outcome = "jobFail" /\ starts[k].jobId # starts[i].jobId

\* C8: a failed poll fetch sets pollingError and leaves the fatal error as it
\* was; a failed creation call sets the fatal error and leaves pollingError
\* as it was.
C8_ErrorSignalsDisjoint ==
  [][/\ \A r \in polls :
          PollFail(r) => /\ error' = error
                         /\ mounted => pollingError' = PollingLostMsg
     /\ \A i \in DOMAIN starts :
          CreateFail(i) => /\ pollingError' = pollingError
                           /\ mounted => error' # Null
    ]_vars

C8_Witness ==
  /\ last = "CreateFail" /\ mounted
  /\ error # Null
  /\ pollingError = PollingLostMsg

\* C9 as stated: whenever AnalysisStatus is rendered, what it displays is
\* deriveTaskDisplayState of the cached task.
C9_DisplayIsDerived ==
  Page.view = "analysis" => Page.shown = deriveTaskDisplayState(task)

\* C9 as amended: whenever AnalysisStatus is rendered with pollingError
\* clear, it displays deriveTaskDisplayState of the cached task; with
\* pollingError set it displays the pollingError message instead.
C9_DisplayIsDerivedUnlessWarning ==
  Page.view = "analysis" =>
     /\ pollingError = Null => Page.shown = deriveTaskDisplayState(task)
     /\ pollingError # Null => Page.shown.message = pollingError

C9_Witness ==
  /\ Page.view = "analysis" /\ mounted
  /\ pollingError = Null
  /\ last = "PollOk" /\ task.status = "complete"

\* C10: applying a successfully fetched record of status 'failed' changes
\* neither pollingError nor the fatal error, and the status derived from the
\* cached task is then 'error'.
C10_FailedRecordIsData ==
  [][\A r \in polls :
        (PollOk(r) /\ mounted /\ task'.status = "failed")
           => /\ pollingError' = pollingError
              /\ error' = error
              /\ deriveTaskDisplayState(task').status = "error"
    ]_vars

C10_Witness ==
  /\ last = "PollOk" /\ mounted
  /\ task.status = "failed"
  /\ pollingError = Null /\ error = Null
  /\ Page.view = "analysis" /\ Page.shown.status = "error"

\* The subject whose start created the task of this id.
SubjectOf(id) == starts[id].jobId

\* C11: the cached task, whenever present, belongs to the current subject:
\* the record of the previous subject is discarded at a subject change and
\* no response issued for the previous subject is applied afterwards.
C11_TaskOfCurrentSubject ==
  (mounted /\ task # NoTask) => SubjectOf(task.id) = jobId

\* C12: a subject change cancels the polling timer of the previous
\* subject's task, and no poll fetch is issued against a task of another
\* subject than the current one.
C12_TimerCancelledAtChange ==
  [][/\ (\E j \in Jobs : ChangeSubject(j)) => ~timer'.active
     /\ Tick => SubjectOf(timer.id) = jobId
    ]_vars

\* C13: the teardown leaves no polling timer, changes nothing else and
\* nothing at all when no timer was active; once torn down, no poll fetch
\* is issued, no timer is set up, and the timer state is the one a further
\* clearing would leave.
C13_TeardownStopsPolling ==
  [][/\ Unmount => /\ ~timer'.active
                   /\ ~timer.active => timer' = timer
                   /\ task' = task /\ polls' = polls /\ nPolls' = nPolls
     /\ ~mounted => /\ timer = NoTimer
                    /\ timer' = timer
                    /\ nPolls' = nPolls
                    /\ mounted' = mounted
    ]_vars

C13_Witness ==
  /\ ~mounted /\ last = "PollOk"
  /\ task # NoTask /\ ~IsTerminal(task)
  /\ nPolls > 0
  /\ ~timer.active

MsgRequesting == "Requesting initial details from on-premises agent..."
MsgTriaging == "Initial data received. Performing AI triage..."
MsgFinalizing == "Triage complete. Finalizing analysis..."
MsgDeeper == "Triage complete. Agent is now fetching detailed logs..."

\* C14: for the absent task the call returns status 'initializing'.
C14_AbsentIsInitializing ==
  (Derived /\ dIn = NoTask) => dOut.status = "initializing"

C14_Witness == dIn = NoTask /\ dOut.status = "initializing"

\* C15: for every record of status 'finalized' the call returns status
\* 'success', whatever the task_type and the result.
C15_FinalizedIsSuccess ==
  (Derived /\ dIn # NoTask /\ dIn.status = "finalized")
     => dOut.status = "success"

C15_Witness ==
  /\ dIn # NoTask /\ dIn.status = "finalized"
  /\ dIn.task_type = "OTHER_TASK" /\ dIn.result = NoResult
  /\ dOut.status = "success"

\* C16: for every record of status 'failed' the call returns status 'error',
\* whatever the task_type and the result.
C16_FailedIsError ==
  (Derived /\ dIn # NoTask /\ dIn.status = "failed") => dOut.status = "error"

C16_Witness ==
  /\ dIn # NoTask /\ dIn.status = "failed"
  /\ dIn.task_type = "OTHER_TASK" /\ dIn.result # NoResult
  /\ dOut.status = "error"

\* C17: for every GET_JOB_DETAILS record of status 'pending' or
\* 'processing' the call returns 'loading' with the 'requesting initial
\* details' message.
C17_InitialFetchIsRequesting ==
  (/\ Derived /\ dIn # NoTask
   /\ dIn.task_type = "GET_JOB_DETAILS"
   /\ dIn.status \in {"pending", "processing"})
     => dOut = [status |-> "loading", message |-> MsgRequesting]

C17_Witness ==
  /\ dIn # NoTask /\ dIn.task_type = "GET_JOB_DETAILS"
  /\ dIn.status = "processing" /\ dIn.result # NoResult
  /\ dOut.message = MsgRequesting

\* C18 as stated: for every record of status 'complete' without a
\* triage_decision, of any task_type, the call returns 'loading' with the
\* 'triage in progress' message.
C18_CompleteNoTriageAnyType ==
  (/\ Derived /\ dIn # NoTask
   /\ dIn.status = "complete"
   /\ ~TriageDecisionOf(dIn).present)
     => dOut = [status |-> "loading", message |-> MsgTriaging]

\* C18 as amended: for every GET_JOB_DETAILS record of status 'complete'
\* without a triage_decision the call returns 'loading' with the 'triage in
\* progress' message; for any other task_type it returns 'loading' with the
\* generic message.
C18_CompleteNoTriage ==
  (/\ Derived /\ dIn # NoTask
   /\ dIn.status = "complete"
   /\ ~TriageDecisionOf(dIn).present)
     => /\ dOut.status = "loading"
        /\ dIn.task_type = "GET_JOB_DETAILS" => dOut.message = MsgTriaging
        /\ dIn.task_type # "GET_JOB_DETAILS"
              => dOut.message = "Analysis in progress..."

C18_Witness ==
  /\ dIn # NoTask /\ dIn.task_type = "GET_JOB_DETAILS"
  /\ dIn.status = "complete"
  /\ dIn.result.present /\ ~dIn.result.triage_decision.present
  /\ dOut.message = MsgTriaging

\* C19 as stated: for every record of status 'complete' with a
\* triage_decision, of any task_type, the call returns 'loading' with the
\* 'deeper log collection' message when is_sufficient is false and the
\* 'finalizing' message when it is true.
C19_TriageMessageAnyType ==
  (/\ Derived /\ dIn # NoTask
   /\ dIn.status = "complete"
   /\ TriageDecisionOf(dIn).present)
     => /\ dOut.status = "loading"
        /\ TriageDecisionOf(dIn).is_sufficient = "false"
              => dOut.message = MsgDeeper
        /\ TriageDecisionOf(dIn).is_sufficient = "true"
              => dOut.message = MsgFinalizing

\* C19 as amended: the same for GET_JOB_DETAILS records only; for any other
\* task_type the call returns 'loading' with the generic message.
C19_TriageMessage ==
  (/\ Derived /\ dIn # NoTask
   /\ dIn.status = "complete"
   /\ TriageDecisionOf(dIn).present)
     => /\ dOut.status = "loading"
        /\ (/\ dIn.task_type = "GET_JOB_DETAILS"
            /\ TriageDecisionOf(dIn).is_sufficient = "false")
              => dOut.message = MsgDeeper
        /\ (/\ dIn.task_type = "GET_JOB_DETAILS"
            /\ TriageDecisionOf(dIn).is_sufficient = "true")
              => dOut.message = MsgFinalizing
        /\ dIn.task_type # "GET_JOB_DETAILS"
              => dOut.message = "Analysis in progress..."

C19_Witness ==
  /\ dIn # NoTask /\ dIn.task_type = "GET_JOB_DETAILS"
  /\ dIn.status = "complete"
  /\ TriageDecisionOf(dIn).present
  /\ TriageDecisionOf(dIn).is_sufficient = "false"
  /\ dOut.message = MsgDeeper

\* The fields the result of a call may depend on.
SameRelevant(t, u) ==
  \/ t = NoTask /\ u = NoTask
  \/ /\ t # NoTask /\ u # NoTask
     /\ t.task_type = u.task_type
     /\ t.status = u.status
     /\ TriageDecisionOf(t) = TriageDecisionOf(u)

\* C20: a call leaves the record it is given unchanged, a second call on
\* the same record returns what the first returned, and the result is the
\* same for all records that agree on task_type, status and
\* result.triage_decision.
C20_DeriveIsPure ==
  [][DeriveCall =>
       /\ dIn' = dIn
       /\ Derived => dOut' = dOut
       /\ \A u \in TaskInputs :
             SameRelevant(u, dIn) => deriveTaskDisplayState(u) = dOut'
    ]_vars

C20_Witness ==
  /\ Derived /\ dIn # NoTask
  /\ dIn.id = MaxTaskId
  /\ dIn.result.present /\ dIn.result.ai_analysis
  /\ dIn.status = "complete"

\* C21: applying a resolved poll replaces the cached task by the response
\* body as a whole: afterwards the cached task is a record the backend
\* served for that request, with nothing of the record cached before.
C21_ReplacedWholesale ==
  [][\A r \in polls :
        (PollOk(r) /\ mounted)
           => \E k \in r.from .. Upper(r) :
                 task' = RecordOf(r.id, srv[r.id][k])
    ]_vars

\* Both polls of the only task resolved, the later one first with the
\* 'finalized' record and its result, the earlier one last with the
\* 'pending' record: nothing of the result cached before is left.
C21_Witness ==
  /\ mounted /\ last = "PollOk"
  /\ Len(starts) = 1 /\ nPolls = 2 /\ polls = {}
  /\ termSeen /\ srv[1][Len(srv[1])] = "finalized"
  /\ task.status = "pending"
  /\ ~task.result.present

\* C22: poll fetches are issued at fixed rate: every fetch is issued a whole
\* number of periods after polling began, whenever earlier fetches
\* completed or were applied.
C22_FixedRate ==
  [][TickAt => (now - PollingBegan) % Period = 0]_vars

\* Ticks keep firing: the interval is never left set for good with no fetch
\* left to issue.
TicksKeepFiring == []<>(timer.active => Work < MaxWork)

\* Polling has come to its end: the cached task is terminal and no interval
\* is set.
PollingOver == IsTerminal(task) /\ ~timer.active

MsgGeneric == "Analysis in progress..."

\* C24: every call returns one of the four statuses; every present record
\* whose status is neither 'finalized' nor 'failed' gives 'loading'; and a
\* record no row is written for (a status or a task_type no row names, an
\* is_sufficient that is neither true nor false) gives the generic message.
C24_TotalWithFallback ==
  Derived =>
    /\ dOut.status \in {"initializing", "success", "error", "loading"}
    /\ (dIn # NoTask /\ dIn.status \notin {"finalized", "failed"})
          => dOut.status = "loading"
    /\ (/\ dIn # NoTask
        /\ dIn.status \notin {"finalized", "failed"}
        /\ \/ dIn.status \notin {"pending", "processing", "complete"}
           \/ /\ dIn.task_type # "GET_JOB_DETAILS"
              /\ dIn.status \in {"pending", "processing"}
           \/ /\ dIn.status = "complete"
              /\ TriageDecisionOf(dIn).present
              /\ TriageDecisionOf(dIn).is_sufficient \notin {"true", "false"})
          => dOut.message = MsgGeneric

C24_Witness ==
  /\ Derived /\ dIn # NoTask
  /\ dIn.task_type = "GET_JOB_DETAILS" /\ dIn.status = "complete"
  /\ TriageDecisionOf(dIn).present
  /\ TriageDecisionOf(dIn).is_sufficient = "null"
  /\ dOut = [status |-> "loading", message |-> MsgGeneric]

\* C25: the interval callback does not wait for the calls in flight: while
\* the interval is set, a tick can issue a fetch although an earlier fetch
\* for the same task is unanswered.
C25_TickIgnoresInFlight ==
  (/\ timer.active /\ Work < MaxWork
   /\ \E q \in polls : q.id = timer.id)
     => ENABLED Tick

C25_Witness ==
  /\ mounted /\ last = "Tick"
  /\ \E q, r \in polls : q.id = r.id /\ q.seq < r.seq /\ r.seq = nPolls

\* C26: the cached task changes only in a step that applies the response of
\* a resolved creation call or of a resolved poll; a rejected creation, a
\* rejected poll, a tick, and the teardown leave it as it was.
C26_SingleWriter ==
  [][/\ task' # task
          => \/ \E i \in DOMAIN starts : CreateOk(i)
             \/ \E r \in polls : PollOk(r)
     /\ (\/ \E i \in DOMAIN starts : JobFail(i) \/ CreateFail(i)
         \/ \E r \in polls : PollFail(r)
         \/ Tick
         \/ Unmount)
          => task' = task
    ]_vars

C26_Witness ==
  /\ mounted /\ last = "CreateFail"
  /\ task # NoTask /\ ~IsTerminal(task)
  /\ hiSeq > 0 /\ pollingError = Null

\* C27: while the component is mounted, the one interval of the polling
\* effect is set exactly when the cached task is present and neither
\* 'finalized' nor 'failed', it is the interval of the cached task, and no
\* poll is issued before a creation response has been stored.
C27_TimerDiscipline ==
  mounted =>
    /\ timer.active <=> (task # NoTask /\ ~IsTerminal(task))
    /\ timer.active => timer.id = task.id
    /\ ~timer.active => timer = NoTimer
    /\ task = NoTask => nPolls = 0

C27_Witness ==
  /\ mounted /\ last = "PollOk"
  /\ IsTerminal(task) /\ ~timer.active
  /\ \E r \in polls : r.id = task.id

\* C28: whenever the cached task is 'finalized' or 'failed' and no fetch is
\* in flight, pollingError is null (stated for a page that kept its first
\* subject, where every fetch was one for the cached task).
C28_NoWarningOverFinished ==
  (mounted /\ Len(starts) = 1 /\ IsTerminal(task) /\ polls = {})
     => pollingError = Null

\* C29: a run of startAnalysisWorkflow makes its creation call in the step
\* in which its getJobById resolved, for the subject of that run; when its
\* getJobById rejects it makes no creation call and ends, the cached task
\* stays as it was, and the fatal error is set.
C29_CreateAfterJobFetch ==
  [][\A i \in DOMAIN starts :
        /\ starts'[i].posts # starts[i].posts
              => /\ JobOk(i)
                 /\ starts'[i].posts = <<starts[i].jobId>>
        /\ JobFail(i)
              => /\ starts'[i].posts = <<>>
                 /\ starts'[i].pc = "done"
                 /\ task' = task
                 /\ mounted => error' \in {DetailErrorMsg, DefaultErrorMsg}
    ]_vars

C29_Witness ==
  /\ mounted /\ last = "JobFail"
  /\ Len(starts) = 2
  /\ starts[2].outcome = "jobFail" /\ starts[2].posts = <<>>
  /\ task # NoTask /\ error # Null

\* C30: the fetch a tick issues is one for the task cached when the tick
\* fires, also after the cached task was replaced by a record of another id.
C30_FetchForCachedTask ==
  [][Tick => /\ task # NoTask
             /\ \A r \in polls' \ polls : r.id = task.id
    ]_vars

\* Task 1 was cached, task 2 replaced it, and the only fetch issued so far
\* is the one this tick issued.
C30_Witness ==
  /\ mounted /\ last = "Tick"
  /\ DOMAIN srv = {1, 2} /\ task.id = 2
  /\ nPolls = 1
  /\ \E r \in polls : r.seq = 1 /\ r.id = 2

====
